---- MODULE Spec2Model ----
(***************************************************************************)
(* Model of the string-reader crate (src/src/lib.rs): the chunk sources    *)
(* String, str, Box<R>, StringReader<R> and StrReader<R>, their trait      *)
(* implementations, and the std::io::Read / BufRead adapter of             *)
(* StringReader.  Strings are sequences of UTF-8 bytes.                    *)
(***************************************************************************)
EXTENDS Integers, Sequences, FiniteSets, TLC

VARIABLES obj, last, pc, buf, l, pos, iter, hist

vars == <<obj, last, pc, buf, l, pos, iter, hist>>

(* ----------------------------- bounds ---------------------------------- *)
MaxQueue == 2
MaxInner == 1
MaxLen == 3
MaxBytes == 4

(* The chunks a caller pushes: "", "a", "bc" and the two-byte character    *)
(* U+00E9 (bytes C3 A9).                                                   *)
Chunks == { <<>>, <<97>>, <<98, 99>>, <<195, 169>> }

(* The functions a caller hands to map_string: String::clear and String::pop.       *)
MapFns == {"clear", "pop"}

(* ------------------------- Option and values --------------------------- *)
None == [t |-> "None"]
Some(v) == [t |-> "Some", v |-> v]
Ok(v) == [t |-> "Ok", v |-> v]
OkBytes(v) == [t |-> "OkBytes", v |-> v]
Bool(v) == [t |-> "Bool", v |-> v]

String_(s) == [t |-> "String", s |-> s]
Str_(s) == [t |-> "str", s |-> s]
Box_(x) == [t |-> "Box", inner |-> x]
StringReader_(q, r) == [t |-> "StringReader", queue |-> q, reader |-> r]
StrReader_(q, r) == [t |-> "StrReader", queue |-> q, reader |-> r]

or_else(a, b) == IF a.t = "Some" THEN a ELSE b

(* VecDeque *)
front(q) == IF q = <<>> THEN None ELSE Some(Head(q))
pop_front(q) == IF q = <<>> THEN [ret |-> None, q |-> q]
                ELSE [ret |-> Some(Head(q)), q |-> Tail(q)]
push_back(q, s) == Append(q, s)
push_front(q, s) == <<s>> \o q

(* str::is_char_boundary on a byte index i (0-based) *)
is_char_boundary(s, i) ==
    \/ i = 0
    \/ i = Len(s)
    \/ i < Len(s) /\ s[i + 1] \notin 128..191

RECURSIVE peek_str(_), is_empty(_), pop_string(_), pop_str(_),
          peek_mut_string(_), store_mut(_, _)

(* ------------------------- impl ... for String ------------------------- *)
String_peek_str(x) == Some(x.s)
String_pop_string(x) == [ret |-> Some(x.s), self |-> String_(<<>>)]
String_peek_mut_string(x) == Some(x.s)

(* ------------------------- impl ... for str, Box ----------------------- *)
str_peek_str(x) == Some(x.s)
str_pop_str_take(x) == [ret |-> Some(x.s), self |-> Str_(<<>>)]
str_pop_str(x) == [ret |-> Some(x.s), self |-> x]
Box_peek_str(x) == peek_str(x.inner)
Box_pop_str(x) == LET r == pop_str(x.inner)
                  IN [ret |-> r.ret, self |-> Box_(r.self)]

(* default method of trait StrRead *)
StrRead_is_empty(x) == peek_str(x).t = "None"

(* ------------------------- StringReader -------------------------------- *)
StringReader_peek_str_back(x) ==
    or_else(IF x.queue = <<>> THEN None ELSE Some(x.queue[Len(x.queue)]),
            IF x.reader.t = "Some" THEN peek_str(x.reader.v) ELSE None)

StringReader_peek_str(x) ==
    or_else(front(x.queue),
            IF x.reader.t = "Some" THEN peek_str(x.reader.v) ELSE None)

StringReader_is_empty_queueOnly(x) == x.queue = <<>>

StringReader_is_empty(x) ==
    x.queue = <<>> /\ (IF x.reader.t = "Some" THEN is_empty(x.reader.v) ELSE TRUE)

StringReader_pop_string_readerFirst(x) ==
    IF x.reader.t = "Some"
    THEN LET r == pop_string(x.reader.v)
         IN [ret |-> r.ret, self |-> [x EXCEPT !.reader = Some(r.self)]]
    ELSE LET p == pop_front(x.queue)
         IN [ret |-> p.ret, self |-> [x EXCEPT !.queue = p.q]]

StringReader_pop_string(x) ==
    LET p == pop_front(x.queue) IN
    IF p.ret.t = "Some" THEN [ret |-> p.ret, self |-> [x EXCEPT !.queue = p.q]]
    ELSE IF x.reader.t = "Some"
         THEN LET r == pop_string(x.reader.v)
              IN [ret |-> r.ret, self |-> [x EXCEPT !.reader = Some(r.self)]]
         ELSE [ret |-> None, self |-> x]

StringReader_peek_mut_string(x) ==
    or_else(front(x.queue),
            IF x.reader.t = "Some" THEN peek_mut_string(x.reader.v) ELSE None)

(* the store through the handle that peek_mut_string returned *)
store_mut(x, v) ==
    IF x.t = "String" THEN String_(v)
    ELSE IF x.queue # <<>> THEN [x EXCEPT !.queue = <<v>> \o Tail(x.queue)]
    ELSE IF x.reader.t = "Some" THEN [x EXCEPT !.reader = Some(store_mut(x.reader.v, v))]
    ELSE x

StringReader_shift_string_asPushBack(x, s) == [x EXCEPT !.queue = push_back(x.queue, s)]

StringReader_push_string(x, s) == [x EXCEPT !.queue = push_back(x.queue, s)]
StringReader_shift_string(x, s) == [x EXCEPT !.queue = push_front(x.queue, s)]

StringReader_fill_buf(x) ==
    IF peek_str(x).t = "Some" THEN peek_str(x).v
    ELSE IF x.reader.t = "Some" /\ peek_str(x.reader.v).t = "Some"
         THEN peek_str(x.reader.v).v
         ELSE <<>>

(* ------------------------- StrReader ----------------------------------- *)
StrReader_peek_str(x) ==
    or_else(front(x.queue),
            IF x.reader.t = "Some" THEN peek_str(x.reader.v) ELSE None)

StrReader_is_empty(x) ==
    x.queue = <<>> /\ (IF x.reader.t = "Some" THEN is_empty(x.reader.v) ELSE TRUE)

StrReader_pop_str(x) ==
    LET p == pop_front(x.queue) IN
    IF p.ret.t = "Some" THEN [ret |-> p.ret, self |-> [x EXCEPT !.queue = p.q]]
    ELSE IF x.reader.t = "Some"
         THEN LET r == pop_str(x.reader.v)
              IN [ret |-> r.ret, self |-> [x EXCEPT !.reader = Some(r.self)]]
         ELSE [ret |-> None, self |-> x]

StrReader_push_str_dropsReader(x, s) ==
    [x EXCEPT !.queue = push_back(x.queue, s), !.reader = None]

StrReader_push_str(x, s) == [x EXCEPT !.queue = push_back(x.queue, s)]
StrReader_shift_str(x, s) == [x EXCEPT !.queue = push_front(x.queue, s)]

(* ------------------------- trait dispatch ------------------------------ *)
peek_str(x) ==
    CASE x.t = "String" -> String_peek_str(x)
      [] x.t = "str" -> str_peek_str(x)
      [] x.t = "Box" -> Box_peek_str(x)
      [] x.t = "StringReader" -> StringReader_peek_str(x)
      [] x.t = "StrReader" -> StrReader_peek_str(x)

is_empty(x) ==
    CASE x.t = "StringReader" -> StringReader_is_empty(x)
      [] x.t = "StrReader" -> StrReader_is_empty(x)
      [] OTHER -> StrRead_is_empty(x)

pop_string(x) ==
    CASE x.t = "String" -> String_pop_string(x)
      [] x.t = "StringReader" -> StringReader_pop_string(x)

pop_str(x) ==
    CASE x.t = "str" -> str_pop_str(x)
      [] x.t = "Box" -> Box_pop_str(x)
      [] x.t = "StrReader" -> StrReader_pop_str(x)

peek_mut_string(x) ==
    CASE x.t = "String" -> String_peek_mut_string(x)
      [] x.t = "StringReader" -> StringReader_peek_mut_string(x)

(* pop of either ownership mode *)
pop(x) == IF x.t \in {"String", "StringReader"} THEN pop_string(x) ELSE pop_str(x)


(* a caller's closure applied to a String (the argument of map_string) *)
apply_fn(f, s) ==
    IF f = "clear" \/ s = <<>> THEN <<>>
    ELSE LET k == CHOOSE i \in 1..Len(s) :
                      /\ s[i] \notin 128..191
                      /\ \A j \in (i + 1)..Len(s) : s[j] \in 128..191
         IN SubSeq(s, 1, k - 1)

String_map_string(x, f) == String_(apply_fn(f, x.s))

StringRead_map_string_twice(x, f) ==
    LET m == peek_mut_string(x)
    IN IF m.t = "Some" THEN store_mut(x, apply_fn(f, apply_fn(f, m.v))) ELSE x

StringRead_map_string(x, f) ==
    LET m == peek_mut_string(x)
    IN IF m.t = "Some" THEN store_mut(x, apply_fn(f, m.v)) ELSE x

map_string(x, f) ==
    IF x.t = "String" THEN String_map_string(x, f) ELSE StringRead_map_string(x, f)

(* ------------------------- initial values ------------------------------ *)
SeqsUpTo(S, n) == UNION { [1..k -> S] : k \in 0..n }

BareStrings == { String_(s) : s \in Chunks }
BareStrs == { Str_(s) : s \in Chunks } \cup { Box_(Str_(s)) : s \in Chunks }

InnerStringReaders ==
    { StringReader_(q, r) : q \in SeqsUpTo(Chunks, MaxInner),
                            r \in {None} \cup { Some(x) : x \in BareStrings } }
InnerStrReaders ==
    { StrReader_(q, r) : q \in SeqsUpTo(Chunks, MaxInner),
                         r \in {None} \cup { Some(x) : x \in BareStrs } }

(* Default::default / new, From<R>, From<VecDeque<_>> *)
StringReader_default == StringReader_(<<>>, None)
StringReader_from_R(r) == StringReader_(<<>>, Some(r))
StringReader_from_VecDeque(q) == StringReader_(q, None)
StrReader_default == StrReader_(<<>>, None)
StrReader_from_R(r) == StrReader_(<<>>, Some(r))
StrReader_from_VecDeque(q) == StrReader_(q, None)

InitObjects ==
    BareStrings \cup BareStrs
    \cup {StringReader_default} \cup {StrReader_default}
    \cup { StringReader_from_R(r) : r \in BareStrings \cup InnerStringReaders }
    \cup { StrReader_from_R(r) : r \in BareStrs \cup InnerStrReaders }
    \cup { StringReader_from_VecDeque(q) : q \in SeqsUpTo(Chunks, MaxQueue) }
    \cup { StrReader_from_VecDeque(q) : q \in SeqsUpTo(Chunks, MaxQueue) }

(* the record of the latest call: its name, its argument (a chunk, a       *)
(* length or a closure), its result, the receiver before the call, and the *)
(* destination buffer after a read                                         *)
Call(op, chunk, n, f, ret, pre) ==
    [op |-> op, chunk |-> chunk, n |-> n, f |-> f, ret |-> ret, pre |-> pre, buf |-> <<>>]

(* history of a run, kept when on: the bytes pushed so far, the bytes the   *)
(* reads returned so far, and the record of the call before the latest one *)
Hist(on, pushed, out, prev) == [on |-> on, pushed |-> pushed, out |-> out, prev |-> prev]

Init ==
    /\ obj \in InitObjects
    /\ last = Call("new", <<>>, 0, "", None, obj)
    /\ pc = "idle"
    /\ buf = <<>>
    /\ l = 0
    /\ pos = 0
    /\ iter = 0
    /\ hist = Hist(FALSE, <<>>, <<>>, Call("new", <<>>, 0, "", None, StringReader_default))

(* a new StringReader whose calls are recorded in hist *)
StreamInit ==
    /\ obj = StringReader_default
    /\ last = Call("new", <<>>, 0, "", None, obj)
    /\ pc = "idle"
    /\ buf = <<>>
    /\ l = 0
    /\ pos = 0
    /\ iter = 0
    /\ hist = Hist(TRUE, <<>>, <<>>, last)

(* ------------------------- queue operations ---------------------------- *)
PushString(s) ==
    /\ pc = "idle" /\ obj.t = "StringReader" /\ Len(obj.queue) < MaxQueue
    /\ hist.on => Len(hist.pushed) + Len(s) <= MaxBytes
    /\ obj' = StringReader_push_string(obj, s)
    /\ last' = Call("push", s, 0, "", None, obj)
    /\ hist' = IF hist.on THEN [hist EXCEPT !.pushed = @ \o s, !.prev = last] ELSE hist
    /\ UNCHANGED <<pc, buf, l, pos, iter>>

ShiftString(s) ==
    /\ pc = "idle" /\ obj.t = "StringReader" /\ Len(obj.queue) < MaxQueue
    /\ obj' = StringReader_shift_string(obj, s)
    /\ last' = Call("shift", s, 0, "", None, obj)
    /\ UNCHANGED <<pc, buf, l, pos, iter, hist>>

PushStr(s) ==
    /\ pc = "idle" /\ obj.t = "StrReader" /\ Len(obj.queue) < MaxQueue
    /\ obj' = StrReader_push_str(obj, s)
    /\ last' = Call("push", s, 0, "", None, obj)
    /\ UNCHANGED <<pc, buf, l, pos, iter, hist>>

ShiftStr(s) ==
    /\ pc = "idle" /\ obj.t = "StrReader" /\ Len(obj.queue) < MaxQueue
    /\ obj' = StrReader_shift_str(obj, s)
    /\ last' = Call("shift", s, 0, "", None, obj)
    /\ UNCHANGED <<pc, buf, l, pos, iter, hist>>

PopString ==
    /\ pc = "idle" /\ obj.t \in {"String", "StringReader"}
    /\ obj' = pop_string(obj).self
    /\ last' = Call("pop", <<>>, 0, "", pop_string(obj).ret, obj)
    /\ UNCHANGED <<pc, buf, l, pos, iter, hist>>

PopStr ==
    /\ pc = "idle" /\ obj.t \in {"str", "Box", "StrReader"}
    /\ obj' = pop_str(obj).self
    /\ last' = Call("pop", <<>>, 0, "", pop_str(obj).ret, obj)
    /\ UNCHANGED <<pc, buf, l, pos, iter, hist>>

PeekStr ==
    /\ pc = "idle"
    /\ last' = Call("peek", <<>>, 0, "", peek_str(obj), obj)
    /\ UNCHANGED <<obj, pc, buf, l, pos, iter, hist>>

IsEmpty ==
    /\ pc = "idle"
    /\ last' = Call("is_empty", <<>>, 0, "", Bool(is_empty(obj)), obj)
    /\ UNCHANGED <<obj, pc, buf, l, pos, iter, hist>>

MapString(f) ==
    /\ pc = "idle" /\ obj.t \in {"String", "StringReader"}
    /\ obj' = map_string(obj, f)
    /\ last' = Call("map", <<>>, 0, f, None, obj)
    /\ UNCHANGED <<pc, buf, l, pos, iter, hist>>

(* ------------------------- std::io::BufRead / Read --------------------- *)
FillBuf ==
    /\ pc = "idle" /\ obj.t = "StringReader"
    /\ last' = Call("fill_buf", <<>>, 0, "", OkBytes(StringReader_fill_buf(obj)), obj)
    /\ UNCHANGED <<obj, pc, buf, l, pos, iter, hist>>

(* entry of read: let mut l = buf.len(); let mut pos = 0; *)
ReadCall(n) ==
    /\ pc = "idle" /\ obj.t = "StringReader"
    /\ buf' = [i \in 1..n |-> 0]
    /\ l' = n
    /\ pos' = 0
    /\ iter' = 0
    /\ pc' = "read"
    /\ last' = Call("read", <<>>, n, "", None, obj)
    /\ hist' = IF hist.on THEN [hist EXCEPT !.prev = last] ELSE hist
    /\ UNCHANGED obj

(* consume: a zeroed scratch buffer of amt bytes, then self.read(&mut buf) *)
ConsumeCall(amt) ==
    /\ pc = "idle" /\ obj.t = "StringReader"
    /\ buf' = [i \in 1..amt |-> 0]
    /\ l' = amt
    /\ pos' = 0
    /\ iter' = 0
    /\ pc' = "read"
    /\ last' = Call("consume", <<>>, amt, "", None, obj)
    /\ UNCHANGED <<obj, hist>>

(* s[..l] and s[l..] of the truncating branch *)
str_to(s, n) == SubSeq(s, 1, n)
str_from_offByOne(s, n) == SubSeq(s, n + 2, Len(s))
str_from(s, n) == SubSeq(s, n + 1, Len(s))

(* dst[from..to].copy_from_slice(src), the bytes of dst outside the range kept *)
copy_from_slice_atZero(dst, from, to, src) ==
    src \o SubSeq(dst, Len(src) + 1, Len(dst))
copy_from_slice(dst, from, to, src) ==
    SubSeq(dst, 1, from) \o src \o SubSeq(dst, to + 1, Len(dst))

(* the branch condition of the loop body: if slen > l *)
truncates_geq(slen, n) == slen >= n
truncates(slen, n) == slen > n

(* pos += slen; l -= slen; *)
next_pos(p, slen) == p + slen
next_l_kept(n, slen) == n
next_l(n, slen) == n - slen

Panic ==
    /\ pc' = "panic"
    /\ UNCHANGED <<obj, last, buf, l, pos, iter, hist>>

Return(n, b) ==
    /\ pc' = "idle"
    /\ last' = [last EXCEPT !.ret = Ok(n), !.buf = IF last.op = "read" THEN b ELSE <<>>]
    /\ buf' = <<>> /\ l' = 0 /\ pos' = 0 /\ iter' = 0
    /\ hist' = IF hist.on /\ last.op = "read"
               THEN [hist EXCEPT !.out = @ \o SubSeq(b, 1, n)]
               ELSE hist

(* one evaluation of the loop condition and, if it holds, of the loop body; *)
(* iter is the parity of the iterations completed by the running call, so   *)
(* that going round the loop is a step even when no datum changes           *)
ReadStep ==
    /\ pc = "read"
    /\ LET m == peek_mut_string(obj) IN
       IF m.t = "None"
       THEN Return(pos, buf) /\ UNCHANGED obj
       ELSE LET s == m.v
                slen == Len(s)
            IN IF truncates(slen, l)
               THEN IF pos <= Len(buf) /\ is_char_boundary(s, l) /\ Len(buf) - pos = l
                    THEN /\ obj' = store_mut(obj, str_from(s, l))
                         /\ Return(Len(buf), copy_from_slice(buf, pos, Len(buf), str_to(s, l)))
                    ELSE Panic
               ELSE LET p == pop_string(obj) IN
                    IF pos + slen <= Len(buf) /\ p.ret.t = "Some" /\ Len(p.ret.v) = slen
                    THEN /\ obj' = p.self
                         /\ buf' = copy_from_slice(buf, pos, pos + slen, p.ret.v)
                         /\ pos' = next_pos(pos, slen)
                         /\ l' = next_l(l, slen)
                         /\ iter' = 1 - iter
                         /\ UNCHANGED <<pc, last, hist>>
                    ELSE Panic

Next ==
    \/ \E s \in Chunks : PushString(s)
    \/ \E s \in Chunks : ShiftString(s)
    \/ \E s \in Chunks : PushStr(s)
    \/ \E s \in Chunks : ShiftStr(s)
    \/ PopString
    \/ PopStr
    \/ PeekStr
    \/ IsEmpty
    \/ \E f \in MapFns : MapString(f)
    \/ FillBuf
    \/ \E n \in 0..MaxLen : ReadCall(n)
    \/ \E amt \in 0..MaxLen : ConsumeCall(amt)
    \/ ReadStep

Spec == Init /\ [][Next]_vars

(* read is a loop of a sequential program: an iteration that can run, runs *)
FairSpec == Spec /\ WF_vars(ReadStep)

(* a caller that only pushes single-byte text and reads *)
AsciiChunks == { s \in Chunks : \A i \in 1..Len(s) : s[i] < 128 }

StreamNext ==
    \/ \E s \in AsciiChunks : PushString(s)
    \/ \E n \in 0..MaxLen : ReadCall(n)
    \/ ReadStep

StreamSpec == StreamInit /\ [][StreamNext]_vars

(* ========================= properties ================================== *)
IsReader(x) == x.t \in {"StringReader", "StrReader"}
NoFallback(x) == IsReader(x) /\ x.reader = None
HasFallback(x) == IsReader(x) /\ x.reader.t = "Some"

RECURSIVE Concat(_)
Concat(q) == IF q = <<>> THEN <<>> ELSE Head(q) \o Concat(Tail(q))

Ascii(s) == \A i \in 1..Len(s) : s[i] < 128
Min(a, b) == IF a <= b THEN a ELSE b

PrefixLen(q, k) == Len(Concat(SubSeq(q, 1, k)))

RestAfter(q, n) ==
    IF Len(Concat(q)) <= n THEN <<>>
    ELSE LET k == CHOOSE i \in 1..Len(q) :
                      /\ PrefixLen(q, i) > n
                      /\ \A j \in 1..(i - 1) : PrefixLen(q, j) <= n
         IN <<SubSeq(q[k], n - PrefixLen(q, k - 1) + 1, Len(q[k]))>>
                \o SubSeq(q, k + 1, Len(q))

C3_ReadNoFallback ==
    /\ pc = "idle" /\ last.op = "read"
    /\ last.pre.reader = None
    /\ \A i \in 1..Len(last.pre.queue) : Ascii(last.pre.queue[i])
    => LET T == Concat(last.pre.queue)
           n == Min(last.n, Len(T))
       IN /\ last.ret = Ok(n)
          /\ Len(last.buf) = last.n
          /\ SubSeq(last.buf, 1, n) = SubSeq(T, 1, n)
          /\ Concat(obj.queue) = SubSeq(T, n + 1, Len(T))
          /\ obj.queue = RestAfter(last.pre.queue, n)
          /\ obj.reader = None
          /\ (last.n > 0 => (n = 0 <=> T = <<>>))

C3_Witness ==
    /\ pc = "idle" /\ last.op = "read" /\ last.pre.reader = None
    /\ last.pre.queue = << <<97>>, <<98, 99>> >>
    /\ last.n = 2
    /\ last.buf = <<97, 98>>
    /\ obj.queue = << <<99>> >>

(* C4: with a fallback, peek, pop and peek_mut serve the queue front while *)
(* the queue is non-empty and leave the fallback alone; with an empty      *)
(* queue they delegate to the fallback; a chunk pushed or shifted onto the *)
(* empty queue is popped before any further fallback chunk.                *)
C4_QueueBeforeFallback ==
    /\ HasFallback(obj) /\ obj.queue # <<>> =>
          /\ peek_str(obj) = Some(Head(obj.queue))
          /\ obj.t = "StringReader" => peek_mut_string(obj) = Some(Head(obj.queue))
    /\ HasFallback(obj) /\ obj.queue = <<>> =>
          /\ peek_str(obj) = peek_str(obj.reader.v)
          /\ obj.t = "StringReader" => peek_mut_string(obj) = peek_mut_string(obj.reader.v)
    /\ HasFallback(last.pre) /\ last.op = "pop" =>
          IF last.pre.queue # <<>>
          THEN /\ last.ret = Some(Head(last.pre.queue))
               /\ obj.queue = Tail(last.pre.queue)
               /\ obj.reader = last.pre.reader
          ELSE /\ last.ret = pop(last.pre.reader.v).ret
               /\ obj.reader = Some(pop(last.pre.reader.v).self)
               /\ obj.queue = <<>>
    /\ HasFallback(last.pre) /\ last.op \in {"push", "shift"} /\ last.pre.queue = <<>> =>
          /\ pop(obj).ret = Some(last.chunk)
          /\ pop(obj).self.reader = last.pre.reader
          /\ pop(pop(obj).self).ret = pop(last.pre.reader.v).ret

C4_Witness ==
    /\ last.op = "pop" /\ HasFallback(last.pre) /\ last.pre.t = "StringReader"
    /\ last.pre.queue = <<>>
    /\ last.pre.reader.v.t = "StringReader"
    /\ last.pre.reader.v.queue # <<>>
    /\ last.ret = Some(Head(last.pre.reader.v.queue))
    /\ obj.reader.v.queue = <<>>

(* C5: emptiness is exact: is_empty() holds iff peek_str returns None, iff *)
(* the next pop would return None.                                         *)
C5_EmptinessExact ==
    IsReader(obj) =>
        /\ is_empty(obj) <=> (peek_str(obj) = None)
        /\ is_empty(obj) <=> (pop(obj).ret = None)
        /\ last.op = "is_empty" => (last.ret = Bool(peek_str(obj) = None))

C5_Witness ==
    /\ obj.t = "StringReader" /\ HasFallback(obj)
    /\ last.op = "pop" /\ last.ret # None
    /\ is_empty(obj)

(* C7: a bare str (or Box<str>) source: pop_str returns the full slice     *)
(* every time, leaves the source unchanged, and the source never reports   *)
(* empty.                                                                  *)
StrContent(x) == IF x.t = "Box" THEN x.inner.s ELSE x.s

C7_StrPopIdempotent ==
    obj.t \in {"str", "Box"} =>
        /\ peek_str(obj) = Some(StrContent(obj))
        /\ ~is_empty(obj)
        /\ pop_str(obj).ret = Some(StrContent(obj))
        /\ pop_str(pop_str(obj).self) = pop_str(obj)
        /\ last.op = "pop" => last.ret = Some(StrContent(last.pre)) /\ obj = last.pre

C7_Witness ==
    /\ obj.t = "Box" /\ last.op = "pop" /\ last.pre = obj
    /\ last.ret = Some(<<98, 99>>)

(* C2: every call of read (and of consume) terminates, whatever the        *)
(* reader state and the destination length.                                *)
C2_ReadTerminates == (pc = "read") ~> (pc # "read")

(* C6: for a bare String the first pop_string returns the full content and *)
(* every subsequent pop_string returns None.                               *)
C6_StringPopOnce ==
    [][obj.t = "String" /\ last'.op = "pop" =>
          /\ last.op = "new" => last'.ret = Some(obj.s)
          /\ last.op = "pop" => last'.ret = None]_vars

(* C8: the n bytes fill_buf returns are the bytes an immediately following *)
(* read into a destination of length n writes and consumes; fill_buf       *)
(* removes nothing.                                                        *)
RECURSIVE Content(_)
Content(x) ==
    IF x.t \in {"String", "str"} THEN x.s
    ELSE IF x.t = "Box" THEN Content(x.inner)
    ELSE Concat(x.queue) \o (IF x.reader.t = "Some" THEN Content(x.reader.v) ELSE <<>>)

C8_FillBufThenRead ==
    /\ [](last.op = "fill_buf" => obj = last.pre)
    /\ (pc = "read" /\ last.op = "read"
           /\ last.n = Len(StringReader_fill_buf(last.pre)))
         ~> (/\ pc = "idle" /\ last.op = "read"
             /\ last.ret = Ok(Len(StringReader_fill_buf(last.pre)))
             /\ last.buf = StringReader_fill_buf(last.pre)
             /\ StringReader_fill_buf(last.pre) \o Content(obj) = Content(last.pre))

(* C9: on a reader holding at least N bytes, consume(N) advances the       *)
(* stream by exactly N bytes, and is_empty, peek_str and fill_buf reflect  *)
(* the remainder (is_empty holds when N was the whole content).            *)
C9_ConsumeAdvances ==
    last.op = "consume" /\ last.n <= Len(Content(last.pre)) =>
        /\ pc # "panic"
        /\ pc = "idle" =>
              /\ Content(obj) = SubSeq(Content(last.pre), last.n + 1, Len(Content(last.pre)))
              /\ last.n = Len(Content(last.pre)) => is_empty(obj)
              /\ Content(obj) # <<>> =>
                    /\ ~is_empty(obj)
                    /\ peek_str(obj) = Some(StringReader_fill_buf(obj))
                    /\ StringReader_fill_buf(obj)
                         = SubSeq(Content(obj), 1, Len(StringReader_fill_buf(obj)))

(* C10: read, fill_buf and consume never fail: no slice is taken at an     *)
(* invalid position and no absent chunk is unwrapped.                      *)
C10_NeverPanics == pc # "panic"

(* C11: peeking is side-effect-free: peek_str, is_empty and fill_buf leave *)
(* the queue and the fallback as they were, two consecutive peeks return   *)
(* the same chunk, and a pop after a peek returns the peeked chunk.        *)
C11_PeekPure ==
    /\ last.op \in {"peek", "is_empty", "fill_buf"} => obj = last.pre
    /\ last.op = "peek" =>
          /\ peek_str(obj) = last.ret
          /\ pop(obj).ret = last.ret
    /\ pc = "idle" => pop(obj).ret = peek_str(obj)

C11_Witness ==
    /\ last.op = "peek" /\ last.pre.t = "StringReader"
    /\ Len(obj.queue) = 2 /\ obj.queue[1] # obj.queue[2]
    /\ last.ret = Some(obj.queue[1])

(* C12: push_string, shift_string, push_str and shift_str add exactly one  *)
(* chunk at the tail or at the head of the queue, keep every other chunk   *)
(* in its order, and leave the fallback source alone.                      *)
C12_WriteFrame ==
    last.op \in {"push", "shift"} /\ pc = "idle" =>
        /\ obj.t = last.pre.t
        /\ obj.reader = last.pre.reader
        /\ Len(obj.queue) = Len(last.pre.queue) + 1
        /\ last.op = "push" =>
              /\ SubSeq(obj.queue, 1, Len(last.pre.queue)) = last.pre.queue
              /\ obj.queue[Len(obj.queue)] = last.chunk
        /\ last.op = "shift" =>
              /\ Tail(obj.queue) = last.pre.queue
              /\ Head(obj.queue) = last.chunk

C12_Witness ==
    /\ last.op = "push" /\ obj.t = "StrReader" /\ pc = "idle"
    /\ HasFallback(last.pre) /\ last.pre.queue # <<>>
    /\ obj.reader = last.pre.reader
    /\ last.chunk # Head(obj.queue)

(* C13: inside read, pos + l = buf.len() at the head of every iteration,   *)
(* so both copies have a source and a destination of equal length and the  *)
(* range pos..pos + slen never passes the end of the destination.          *)
C13_ReadLoopInvariant ==
    pc = "read" =>
        /\ pos + l = Len(buf)
        /\ LET m == peek_mut_string(obj) IN
           m.t = "Some" =>
              IF truncates(Len(m.v), l)
              THEN pos <= Len(buf) /\ Len(buf) - pos = l
              ELSE /\ pos + Len(m.v) <= Len(buf)
                   /\ pop_string(obj).ret = m

C13_Witness ==
    /\ pc = "read" /\ pos > 0 /\ l > 0
    /\ peek_mut_string(obj).t = "Some"
    /\ Len(peek_mut_string(obj).v) = l

(* C14: when the fallback still holds content and the whole content (queue *)
(* then fallback) exceeds the destination length L, read writes the first  *)
(* L bytes of that content, queue chunks before fallback bytes; a fallback *)
(* chunk consumed in part is cut in place inside the fallback, the queue   *)
(* stays empty, and what is left is the content without its first L bytes. *)
C14_ReadIntoFallback ==
    /\ last.op = "read"
    /\ HasFallback(last.pre)
    /\ Content(last.pre.reader.v) # <<>>
    /\ Len(Content(last.pre)) > last.n
    => /\ pc # "panic"
       /\ pc = "idle" =>
             LET T == Content(last.pre)
                 Q == Concat(last.pre.queue)
             IN /\ last.ret = Ok(last.n)
                /\ last.buf = SubSeq(T, 1, last.n)
                /\ Content(obj) = SubSeq(T, last.n + 1, Len(T))
                /\ last.n < Len(Q) => obj.reader = last.pre.reader
                /\ last.n >= Len(Q) =>
                      /\ obj.queue = <<>>
                      /\ Content(obj.reader.v)
                           = SubSeq(T, last.n + 1, Len(T))

(* C15: map_string applies f once to the next chunk in place (the queue    *)
(* front, else the fallback's next chunk), removes nothing and changes no  *)
(* other chunk; without a next chunk it changes nothing.  peek_mut_string  *)
(* designates the chunk the next pop_string returns.                       *)
RECURSIVE MappedNext(_, _)
MappedNext(x, f) ==
    IF x.t = "String" THEN [x EXCEPT !.s = apply_fn(f, x.s)]
    ELSE IF x.queue # <<>>
         THEN [x EXCEPT !.queue = <<apply_fn(f, Head(x.queue))>> \o Tail(x.queue)]
         ELSE IF x.reader.t = "Some"
              THEN [x EXCEPT !.reader = Some(MappedNext(x.reader.v, f))]
              ELSE x

C15_MapNext ==
    /\ last.op = "map" /\ last.pre.t = "StringReader" =>
          /\ obj = MappedNext(last.pre, last.f)
          /\ Len(obj.queue) = Len(last.pre.queue)
          /\ peek_mut_string(last.pre) = None => obj = last.pre
          /\ peek_mut_string(last.pre).t = "Some" =>
                peek_mut_string(obj) = Some(apply_fn(last.f, peek_mut_string(last.pre).v))
    /\ obj.t = "StringReader" => peek_mut_string(obj) = pop_string(obj).ret

C15_Witness ==
    /\ last.op = "map" /\ last.f = "pop" /\ last.pre.t = "StringReader"
    /\ last.pre.queue = <<>>
    /\ last.pre.reader.t = "Some" /\ last.pre.reader.v.t = "StringReader"
    /\ last.pre.reader.v.queue = << <<98, 99>> >>
    /\ obj.reader.v.queue = << <<98>> >>

(* C16: byte-stream transparency (no fallback, single-byte characters):    *)
(* under any interleaving of push_string and read, the bytes the reads     *)
(* returned, followed by what is still queued, are the bytes pushed, in    *)
(* push order; and read(a) followed by read(b) returns the bytes and       *)
(* leaves the queue that one read of a + b bytes returns and leaves.       *)
IsPrefix(a, b) == Len(a) <= Len(b) /\ SubSeq(b, 1, Len(a)) = a

C16_StreamTransparent ==
    hist.on =>
        /\ IsPrefix(hist.out, hist.pushed)
        /\ pc = "idle" => hist.out \o Concat(obj.queue) = hist.pushed
        /\ pc = "idle" /\ last.op = "read" /\ hist.prev.op = "read" =>
              LET q0 == hist.prev.pre.queue
                  T == Concat(q0)
                  k == Min(hist.prev.n + last.n, Len(T))
              IN /\ hist.prev.ret.v + last.ret.v = k
                 /\ SubSeq(hist.prev.buf, 1, hist.prev.ret.v)
                      \o SubSeq(last.buf, 1, last.ret.v) = SubSeq(T, 1, k)
                 /\ obj.queue = RestAfter(q0, k)

C16_Witness ==
    /\ hist.on /\ pc = "idle" /\ last.op = "read" /\ hist.prev.op = "read"
    /\ hist.pushed = <<98, 99, 97>>
    /\ hist.prev.n = 1 /\ last.n = 2
    /\ hist.out = <<98, 99, 97>>
    /\ obj.queue = <<>>

(* C17: fill_buf returns an empty byte view only if the reader holds no    *)
(* remaining byte at all (no later queue chunk, no fallback content).      *)
C17_EmptyViewMeansEnd ==
    /\ obj.t = "StringReader" /\ pc = "idle" =>
          (StringReader_fill_buf(obj) = <<>> => Content(obj) = <<>>)
    /\ last.op = "fill_buf" /\ last.ret = OkBytes(<<>>) => Content(last.pre) = <<>>

(* C18: a StringReader over a bare String drains: a run of pop_string      *)
(* calls alone ends in a state where pop_string returns None and           *)
(* is_empty() holds.  A pop that leaves the reader as it was is where      *)
(* every such run ends, so there pop must have returned None.              *)
C18_PopsDrain ==
    /\ obj.t = "StringReader" /\ obj.reader.t = "Some" /\ obj.reader.v.t = "String"
    /\ last.op = "pop" /\ last.pre = obj
    => /\ last.ret = None
       /\ is_empty(obj)

(* C19: read cuts a chunk only when it is strictly longer than the         *)
(* remaining capacity, so the chunk it leaves in front is never empty;     *)
(* without fallback, a queue free of empty chunks stays so across read and *)
(* consume, and a read that returns less than the destination length       *)
(* leaves the queue empty.                                                 *)
NoEmptyChunk(q) == \A i \in 1..Len(q) : q[i] # <<>>

C19_NoEmptyRemainder ==
    /\ pc = "read" /\ peek_mut_string(obj).t = "Some"
          /\ truncates(Len(peek_mut_string(obj).v), l)
          => str_from(peek_mut_string(obj).v, l) # <<>>
    /\ pc = "idle" /\ last.op \in {"read", "consume"} =>
          /\ peek_mut_string(obj).t = "Some" => peek_mut_string(obj).v # <<>>
          /\ last.pre.reader = None =>
                /\ NoEmptyChunk(last.pre.queue) => NoEmptyChunk(obj.queue)
                /\ last.op = "read" /\ last.ret.v < last.n => obj.queue = <<>>

C19_Witness ==
    /\ pc = "idle" /\ last.op = "consume" /\ last.pre.reader = None
    /\ last.pre.queue = << <<98, 99>>, <<97>> >>
    /\ last.n = 1
    /\ obj.queue = << <<99>>, <<97>> >>
====
